---- MODULE Spec2Model ----
(***************************************************************************)
(* Repost detection for a Discord forum bot.                               *)
(*                                                                         *)
(* The repository holds two generations of the tracker/store pair:         *)
(*   - UrlTracker.handleUrlMessage (src/urlTracker.js) on top of the        *)
(*     Map-based UrlStorage (src/unnamed/part_002, lines 174-401):          *)
(*     existence check of the original message, no threshold;              *)
(*   - UrlTracker.handleMessage/processUrl (src/unnamed/part_002, lines     *)
(*     1-173) on top of the array-based UrlStore (src/urlStore.js):         *)
(*     repost threshold, no existence check.                               *)
(* Both are modelled; `tracker` says which pair a run of the bot is made    *)
(* of.  Every `await` of the source is a scheduling point: an action        *)
(* runs from the resumption of one await to the suspension at the next,     *)
(* including the synchronous prefix of the async function being called.     *)
(***************************************************************************)
EXTENDS Integers, Sequences, FiniteSets, TLC

(* ------------------------------ bounds --------------------------------- *)
NumHandlers == 2        \* message handlings that may be in flight together
NumUsers == 2           \* distinct message authors
NumChannels == 2        \* distinct channels / threads
NumUrls == 1            \* distinct canonical URLs that appear in messages
MaxTime == 2            \* the clock runs from 0 to MaxTime

Handlers == 1..NumHandlers
Users == 1..NumUsers
Channels == 1..NumChannels
Urls == 1..NumUrls
Times == 0..MaxTime

(* A URL string is an integer: k > 0 is a URL without surrounding           *)
(* whitespace, -k is the same URL with surrounding whitespace.              *)
RawUrls == Urls \cup {-k : k \in Urls}

\* String.prototype.trim
Trim(url) == IF url < 0 THEN -url ELSE url

(* The messages a handler can be given: the urls are what the caller's      *)
(* regex match produced, so they carry no whitespace.                       *)
MaxUrlsPerMsg == 1      \* urls matched in one message
UrlLists == UNION {[1..n -> Urls] : n \in 1..MaxUrlsPerMsg}

\* the message behind a record written by an earlier run of the bot
OldMessage == NumHandlers + 1
Messages == Handlers \cup {OldMessage}

VARIABLES
    tracker,        \* which tracker/store pair this run of the bot is
    now,            \* Date.now()
    live,           \* ids of the Discord messages that still exist
    \* UrlStorage (Map based store)
    urls,           \* this.urls: Map channelId -> array, as a sequence of [ch, list]
    isInitialized,  \* this.isInitialized
    storageFile,    \* contents of URL_DB_<id>.json: "missing", "corrupt" or a map
    opPc,           \* position of the store operation called outside a handler
    opBuf,          \* the JSON text that operation handed to fs.writeFile
    \* UrlStore (array based store)
    data,           \* this.data.urls
    initialized,    \* this.initialized
    dataFile,       \* contents of url_data.json: missing, corrupt or an array
    \* one message handling (either tracker)
    pc,             \* position of each handler
    msg,            \* the message each handler was called with
    idx,            \* index of the url being processed
    existingUrl,    \* handleUrlMessage: result of findUrlHistory (<<>> is null)
    findLog,        \* handleUrlMessage: what that findUrlHistory call logged
    urlHistory,     \* processUrl: result of findUrlHistory (<<>> is undefined)
    postAge,        \* processUrl: getPostAgeHours(urlHistory.timestamp), in ticks
    wbuf,           \* the JSON text the handler handed to fs.writeFile
    oracle,         \* what the existence check of this url returned
    verdict,        \* what was decided for the current url, until its await settles
    outcomes,       \* per handler, the outcome of each url handled so far
    \* a pure function of the source applied to a drawn input
    input,          \* the function and the argument it is applied to
    output          \* what it returned or threw, as strings (<<>> before the call)

envVars == <<tracker, now, live>>
storageVars == <<urls, isInitialized, storageFile>>
storeVars == <<data, initialized, dataFile>>
opVars == <<opPc, opBuf>>
handlerVars == <<pc, msg, idx, existingUrl, findLog, urlHistory, postAge, wbuf, oracle, verdict, outcomes>>
pureVars == <<input, output>>
vars == <<envVars, storageVars, storeVars, opVars, handlerVars, pureVars>>

(* ----------------------- UrlStorage: pure parts ------------------------- *)

\* 30 * 24 * 60 * 60 * 1000 ms, in clock ticks (one tick of `now` is 15 days)
maxAge == 2

\* Map.prototype.has / get / set on the sequence-of-pairs form of the Map;
\* set keeps the position of an existing key and appends a new one.
MapHas(m, ch) == \E i \in 1..Len(m) : m[i].ch = ch
MapIndex(m, ch) == CHOOSE i \in 1..Len(m) : m[i].ch = ch
MapGet(m, ch) == IF MapHas(m, ch) THEN m[MapIndex(m, ch)].list ELSE <<>>
MapSet(m, ch, v) ==
    IF MapHas(m, ch) THEN [m EXCEPT ![MapIndex(m, ch)].list = v]
    ELSE Append(m, [ch |-> ch, list |-> v])

\* entry.url.trim() === url.trim()
EntryMatches(entry, url) == Trim(entry.url) = Trim(url)

ListHas(list, url) == \E j \in 1..Len(list) : EntryMatches(list[j], url)

\* Array.prototype.findIndex (1-based; only used when ListHas)
FindIndex(list, url) ==
    CHOOSE j \in 1..Len(list) :
        /\ EntryMatches(list[j], url)
        /\ \A k \in 1..(j - 1) : ~EntryMatches(list[k], url)

\* first channel, in Map order, whose array holds the url
FirstChannel(m, url) ==
    CHOOSE i \in 1..Len(m) :
        /\ ListHas(m[i].list, url)
        /\ \A k \in 1..(i - 1) : ~ListHas(m[k].list, url)

isDuplicateUrl(m, url) == \E i \in 1..Len(m) : ListHas(m[i].list, url)

\* the line findUrlHistory logs
FindLog(m, init, url) ==
    IF ~init THEN "URL storage not initialized"
    ELSE IF isDuplicateUrl(m, url) THEN "URL history found"
    ELSE "No URL history found"

\* UrlStorage.findUrlHistory: <<>> is null, <<e>> is the record found, with
\* channelId overwritten by the Map key.
findUrlHistory(m, init, url) ==
    IF ~init \/ ~isDuplicateUrl(m, url) THEN <<>>
    ELSE LET i == FirstChannel(m, url)
             e == m[i].list[FindIndex(m[i].list, url)]
         IN  <<[e EXCEPT !.channelId = m[i].ch]>>

\* Array.prototype.splice(index, 1)
Splice(list, j) == [k \in 1..(Len(list) - 1) |-> IF k < j THEN list[k] ELSE list[k + 1]]

\* the Map after deleteUrl's splice (only used when isDuplicateUrl)
DeleteSplice(m, url) ==
    LET i == FirstChannel(m, url)
    IN  [m EXCEPT ![i].list = Splice(m[i].list, FindIndex(m[i].list, url))]

\* Array.prototype.sort((a, b) => b.timestamp - a.timestamp): stable, descending
InsertDesc(sorted, x) ==
    LET n == Cardinality({k \in 1..Len(sorted) : sorted[k].timestamp >= x.timestamp})
    IN  SubSeq(sorted, 1, n) \o <<x>> \o SubSeq(sorted, n + 1, Len(sorted))

RECURSIVE SortDesc(_)
SortDesc(s) ==
    IF s = <<>> THEN <<>>
    ELSE InsertDesc(SortDesc(SubSeq(s, 1, Len(s) - 1)), s[Len(s)])

\* saveUrls: the entries of newUrls that pass the duplicate check.  The check
\* reads this.urls, which the loop does not change.
FreshUrls(m, newUrls) ==
    LET keep == SelectSeq(newUrls, LAMBDA e : ~isDuplicateUrl(m, e.url))
    IN  [k \in 1..Len(keep) |-> [keep[k] EXCEPT !.url = Trim(keep[k].url)]]

\* saveUrls: addedCount and the Map it leaves
SaveCount(m, newUrls) == Len(FreshUrls(m, newUrls))
\* saveUrls that stores the new urls in place of the channel's array
SaveMapReplace(m, ch, newUrls) ==
    IF SaveCount(m, newUrls) > 0
    THEN MapSet(m, ch, SortDesc(FreshUrls(m, newUrls)))
    ELSE m

SaveMap(m, ch, newUrls) ==
    IF SaveCount(m, newUrls) > 0
    THEN MapSet(m, ch, SortDesc(MapGet(m, ch) \o FreshUrls(m, newUrls)))
    ELSE m

\* cleanup: the filter, and totalRemoved
CleanupKeeps(e, t) == t - e.timestamp < maxAge
CleanupMap(m, t) ==
    [i \in 1..Len(m) |-> [m[i] EXCEPT !.list = SelectSeq(m[i].list, LAMBDA e : CleanupKeeps(e, t))]]
RECURSIVE TotalLen(_)
TotalLen(m) == IF m = <<>> THEN 0 ELSE Len(m[1].list) + TotalLen(Tail(m))
TotalRemoved(m, t) == TotalLen(m) - TotalLen(CleanupMap(m, t))

\* every record of the Map, in Map order
RECURSIVE AllEntries(_)
AllEntries(m) == IF m = <<>> THEN <<>> ELSE m[1].list \o AllEntries(Tail(m))

\* the entry addUrl builds
UrlEntry(url, userId, channelId, messageId, t) ==
    [url |-> Trim(url), userId |-> userId, channelId |-> channelId,
     messageId |-> messageId, timestamp |-> t]

\* Object.fromEntries(this.urls): a key met again keeps its place and takes the
\* later value (channel ids are snowflakes, not array indices, so the object
\* keeps them in insertion order)
RECURSIVE ObjectFromEntries(_)
ObjectFromEntries(m) ==
    IF m = <<>> THEN <<>>
    ELSE LET last == m[Len(m)]
         IN  MapSet(ObjectFromEntries(SubSeq(m, 1, Len(m) - 1)), last.ch, last.list)

(* a persisted file: missing, unparseable, or the JSON of a Map *)
FileOf(m) == [state |-> "ok", map |-> ObjectFromEntries(m)]
MissingFile == [state |-> "missing", map |-> <<>>]
CorruptFile == [state |-> "corrupt", map |-> <<>>]

\* a file left by an earlier run: one record, posted by user 1 in channel 1
\* one tick before the clock's origin
OldTime == 0 - 1
OldMap == <<[ch |-> 1, list |-> <<UrlEntry(1, 1, 1, OldMessage, OldTime)>>]>>

\* mutant of LoadMap: the Map is rebuilt from the last channel read
LoadMapLast(m, urlData) ==
    IF urlData = <<>> THEN m ELSE <<urlData[Len(urlData)]>>

\* init: for (const [channelId, urls] of Object.entries(urlData)) this.urls.set(...)
RECURSIVE LoadMap(_, _)
LoadMap(m, urlData) ==
    IF urlData = <<>> THEN m
    ELSE LoadMap(MapSet(m, urlData[1].ch, urlData[1].list), Tail(urlData))

(* -------------------- handleUrlMessage (urlTracker.js) ------------------ *)

\* the bot runs urlTracker.js on UrlStorage; the other pair's state is not there
StorageRun ==
    /\ tracker = "handleUrlMessage"
    /\ UNCHANGED <<tracker, storeVars, urlHistory, postAge, pureVars>>

Cur(h) == msg[h].urls[idx[h]]

\* one outcome per url and handler, in the order they were produced
Emit(h, kind) ==
    outcomes' = [outcomes EXCEPT ![h] = Append(@, [url |-> Cur(h), kind |-> kind])]

\* the for loop moves on: findUrlHistory of the next url is called, or the
\* handler returns
NextUrl(h) ==
    IF idx[h] < Len(msg[h].urls)
    THEN /\ idx' = [idx EXCEPT ![h] = @ + 1]
         /\ existingUrl' = [existingUrl EXCEPT ![h] =
                findUrlHistory(urls, isInitialized, msg[h].urls[idx[h] + 1])]
         /\ findLog' = [findLog EXCEPT ![h] =
                FindLog(urls, isInitialized, msg[h].urls[idx[h] + 1])]
         /\ pc' = [pc EXCEPT ![h] = "found"]
    ELSE /\ pc' = [pc EXCEPT ![h] = "done"]
         /\ UNCHANGED <<idx, existingUrl, findLog>>

\* the outer catch: the error is logged and the handler returns; the urls
\* after the failing one are not looked at
Abort(h) ==
    /\ Emit(h, "ERROR")
    /\ pc' = [pc EXCEPT ![h] = "done"]
    /\ UNCHANGED <<idx, existingUrl, findLog>>

\* addUrl and saveUrls without their `if (!this.isInitialized)` guards
AddUrlUnguarded(h) ==
    LET entry == UrlEntry(Cur(h), msg[h].author, msg[h].channel, msg[h].id, now)
    IN  IF /\ ~isDuplicateUrl(urls, Trim(Cur(h)))
           /\ SaveCount(urls, <<entry>>) > 0
        THEN /\ urls' = SaveMap(urls, msg[h].channel, <<entry>>)
             /\ wbuf' = [wbuf EXCEPT ![h] = urls']
             /\ pc' = [pc EXCEPT ![h] = "addWrite"]
        ELSE /\ pc' = [pc EXCEPT ![h] = "addNull"]
             /\ wbuf' = [wbuf EXCEPT ![h] = <<>>]
             /\ UNCHANGED urls

\* addNewUrlEntry -> UrlStorage.addUrl -> saveUrls, up to fs.writeFile
AddUrlCall(h) ==
    LET entry == UrlEntry(Cur(h), msg[h].author, msg[h].channel, msg[h].id, now)
    IN  IF /\ isInitialized
           /\ ~isDuplicateUrl(urls, Trim(Cur(h)))
           /\ SaveCount(urls, <<entry>>) > 0
        THEN /\ urls' = SaveMap(urls, msg[h].channel, <<entry>>)
             /\ wbuf' = [wbuf EXCEPT ![h] = urls']
             /\ pc' = [pc EXCEPT ![h] = "addWrite"]
        ELSE /\ pc' = [pc EXCEPT ![h] = "addNull"]
             /\ wbuf' = [wbuf EXCEPT ![h] = <<>>]
             /\ UNCHANGED urls

\* deleteUrl that rewrites the file whether or not a record was removed
DeleteUrlRewrites(h) ==
    IF isInitialized
    THEN /\ urls' = IF isDuplicateUrl(urls, Cur(h)) THEN DeleteSplice(urls, Cur(h)) ELSE urls
         /\ wbuf' = [wbuf EXCEPT ![h] = urls']
         /\ pc' = [pc EXCEPT ![h] = "delWrite"]
    ELSE /\ pc' = [pc EXCEPT ![h] = "delNone"]
         /\ UNCHANGED <<urls, wbuf>>

\* UrlStorage.deleteUrl, up to fs.writeFile
DeleteUrlCall(h) ==
    IF isInitialized /\ isDuplicateUrl(urls, Cur(h))
    THEN /\ urls' = DeleteSplice(urls, Cur(h))
         /\ wbuf' = [wbuf EXCEPT ![h] = urls']
         /\ pc' = [pc EXCEPT ![h] = "delWrite"]
    ELSE /\ pc' = [pc EXCEPT ![h] = "delNone"]
         /\ UNCHANGED <<urls, wbuf>>

\* a message arrives and handleUrlMessage is called with the urls matched in
\* it, one of `lists`
StartWith(h, lists) ==
    /\ StorageRun
    /\ pc[h] = "idle"
    /\ \E a \in Users, c \in Channels, ul \in lists :
        /\ msg' = [msg EXCEPT ![h] = [author |-> a, channel |-> c, id |-> h, urls |-> ul]]
        /\ existingUrl' = [existingUrl EXCEPT ![h] = findUrlHistory(urls, isInitialized, ul[1])]
        /\ findLog' = [findLog EXCEPT ![h] = FindLog(urls, isInitialized, ul[1])]
    /\ idx' = [idx EXCEPT ![h] = 1]
    /\ live' = live \cup {h}
    /\ pc' = [pc EXCEPT ![h] = "found"]
    /\ UNCHANGED <<now, storageVars, opVars, wbuf, oracle, verdict, outcomes>>

Start(h) == StartWith(h, UrlLists)

\* `await findUrlHistory` resumes: existing record -> channels.fetch is called;
\* none -> addNewUrlEntry
Found(h) ==
    /\ StorageRun
    /\ pc[h] = "found"
    /\ IF existingUrl[h] # <<>>
       THEN /\ pc' = [pc EXCEPT ![h] = "chanFetch"]
            /\ UNCHANGED <<urls, wbuf>>
       ELSE AddUrlCall(h)
    /\ oracle' = [oracle EXCEPT ![h] = "none"]
    /\ UNCHANGED <<envVars, isInitialized, storageFile, opVars, msg, idx, existingUrl, findLog, verdict, outcomes>>

\* `await this.client.channels.fetch` resumes: a channel, a falsy value, or a throw
ChanFetched(h) ==
    /\ StorageRun
    /\ pc[h] = "chanFetch"
    /\ \/ /\ pc' = [pc EXCEPT ![h] = "msgFetch"]
          /\ UNCHANGED <<urls, wbuf, oracle, outcomes, idx, existingUrl, findLog>>
       \/ /\ oracle' = [oracle EXCEPT ![h] = "nochannel"]
          /\ AddUrlCall(h)
          /\ UNCHANGED <<outcomes, idx, existingUrl, findLog>>
       \/ /\ oracle' = [oracle EXCEPT ![h] = "error"]
          /\ Abort(h)
          /\ UNCHANGED <<urls, wbuf>>
    /\ UNCHANGED <<envVars, isInitialized, storageFile, opVars, msg, verdict>>

\* lines 49-76: what the handler does with a record whose message was fetched.
\* createDuplicateEmbed is neither defined nor imported in urlTracker.js, so
\* the same-author, other-thread branch throws a ReferenceError.
Decide(existing, message) ==
    IF existing.userId # message.author THEN "BLOCKED_OTHER_USER"
    ELSE IF existing.channelId # message.channel THEN "ReferenceError"
    ELSE "NO_ACTION"

\* what originalChannel.messages.fetch(messageId) can do: resolve when the
\* message exists, reject when it is gone, reject on a transient failure
FetchResults(messageId) ==
    (IF messageId \in live THEN {"live"} ELSE {"gone"}) \cup {"error"}

\* `await originalChannel.messages.fetch` resumes
MsgFetched(h) ==
    /\ StorageRun
    /\ pc[h] = "msgFetch"
    /\ \E r \in FetchResults(existingUrl[h][1].messageId) :
        /\ oracle' = [oracle EXCEPT ![h] = r]
        /\ IF r = "live"
           THEN LET d == Decide(existingUrl[h][1], msg[h])
                IN  /\ CASE d = "BLOCKED_OTHER_USER" ->
                                /\ verdict' = [verdict EXCEPT ![h] = d]
                                /\ pc' = [pc EXCEPT ![h] = "reply"]
                                /\ UNCHANGED <<idx, existingUrl, findLog, outcomes>>
                          [] d = "ReferenceError" ->
                                /\ Abort(h)
                                /\ UNCHANGED verdict
                          [] OTHER ->
                                /\ Emit(h, d)
                                /\ NextUrl(h)
                                /\ UNCHANGED verdict
                    /\ UNCHANGED <<urls, wbuf>>
           ELSE \* the catch of lines 40-46, whatever the reason of the rejection
                /\ DeleteUrlCall(h)
                /\ UNCHANGED <<idx, existingUrl, findLog, outcomes, verdict>>
    /\ UNCHANGED <<envVars, isInitialized, storageFile, opVars, msg>>

\* `await message.reply` resumes
Replied(h) ==
    /\ StorageRun
    /\ pc[h] = "reply"
    /\ \/ Emit(h, verdict[h]) /\ NextUrl(h)
       \/ Abort(h)
    /\ verdict' = [verdict EXCEPT ![h] = "none"]
    /\ UNCHANGED <<envVars, storageVars, opVars, msg, wbuf, oracle>>

\* `await deleteUrl` resumes without a write (nothing to delete)
DelNone(h) ==
    /\ StorageRun
    /\ pc[h] = "delNone"
    /\ AddUrlCall(h)
    /\ UNCHANGED <<envVars, isInitialized, storageFile, opVars, msg, idx, existingUrl, findLog,
                   oracle, verdict, outcomes>>

\* deleteUrl's fs.writeFile settles: on success the handler goes on to
\* addNewUrlEntry, on failure the rejection reaches the outer catch
DelWritten(h) ==
    /\ StorageRun
    /\ pc[h] = "delWrite"
    /\ \/ /\ storageFile' = FileOf(wbuf[h])
          /\ AddUrlCall(h)
          /\ UNCHANGED <<idx, existingUrl, findLog, outcomes>>
       \/ /\ Abort(h)
          /\ wbuf' = [wbuf EXCEPT ![h] = <<>>]
          /\ UNCHANGED <<storageFile, urls>>
    /\ UNCHANGED <<envVars, isInitialized, opVars, msg, oracle, verdict>>

\* saveUrls' fs.writeFile settles: a failure is caught inside saveUrls, which
\* returns 0; addNewUrlEntry logs "Added new URL entry" either way
AddWritten(h) ==
    /\ StorageRun
    /\ pc[h] = "addWrite"
    /\ \/ storageFile' = FileOf(wbuf[h])
       \/ UNCHANGED storageFile
    /\ Emit(h, "NEW")
    /\ NextUrl(h)
    /\ wbuf' = [wbuf EXCEPT ![h] = <<>>]
    /\ UNCHANGED <<envVars, urls, isInitialized, opVars, msg, oracle, verdict>>

\* addUrl returned null without writing (not initialized, or a duplicate)
AddNull(h) ==
    /\ StorageRun
    /\ pc[h] = "addNull"
    /\ Emit(h, "NEW")
    /\ NextUrl(h)
    /\ UNCHANGED <<envVars, storageVars, opVars, msg, wbuf, oracle, verdict>>

(* ------------------ store operations outside a handler ------------------ *)

\* UrlStorage.init is called: fs.readFile is pending
StorageInitCall ==
    /\ StorageRun
    /\ opPc = "idle"
    /\ ~isInitialized
    /\ opPc' = "init"
    /\ UNCHANGED <<envVars, storageVars, opBuf, handlerVars>>

\* readFile settles (a missing file reads as '{}'), JSON.parse, fill the Map
StorageInitDone ==
    /\ StorageRun
    /\ opPc = "init"
    /\ IF storageFile.state = "corrupt"
       THEN /\ urls' = <<>>
            /\ isInitialized' = FALSE
       ELSE /\ urls' = LoadMap(urls, storageFile.map)
            /\ isInitialized' = TRUE
    /\ opPc' = "idle"
    /\ UNCHANGED <<envVars, storageFile, opBuf, handlerVars>>

\* UrlStorage.cleanup, up to fs.writeFile
CleanupCall ==
    /\ StorageRun
    /\ opPc = "idle"
    /\ IF isInitialized /\ TotalRemoved(urls, now) > 0
       THEN /\ urls' = CleanupMap(urls, now)
            /\ opBuf' = urls'
            /\ opPc' = "cleanupWrite"
       ELSE UNCHANGED <<urls, opBuf, opPc>>
    /\ UNCHANGED <<envVars, isInitialized, storageFile, handlerVars>>

\* cleanup's fs.writeFile settles; a failure is caught and logged
CleanupWritten ==
    /\ StorageRun
    /\ opPc = "cleanupWrite"
    /\ \/ storageFile' = FileOf(opBuf)
       \/ UNCHANGED storageFile
    /\ opPc' = "idle"
    /\ opBuf' = <<>>
    /\ UNCHANGED <<envVars, urls, isInitialized, handlerVars>>

(* ----------------------- UrlStore: pure parts --------------------------- *)

\* URL_REPOST_THRESHOLD_HOURS, and the clock ticks in an hour (3600000 ms)
thresholdHours == 1
TicksPerHour == 2

DataOf(list) == [state |-> "ok", list |-> list]
MissingData == [state |-> "missing", list |-> <<>>]
CorruptData == [state |-> "corrupt", list |-> <<>>]

\* loadData: this.data = JSON.parse(fileContent)
LoadData(file) == file.list

\* the entry UrlStore.addUrl builds
StoreEntry(url, userId, channelId, t) ==
    [url |-> url, userId |-> userId, channelId |-> channelId, timestamp |-> t]

\* a file left by an earlier run: one record, posted by user 1 in channel 1
OldData == <<StoreEntry(1, 1, 1, OldTime)>>

\* Array.prototype.sort((a, b) => new Date(a.timestamp) - new Date(b.timestamp))
InsertAsc(sorted, x) ==
    LET n == Cardinality({k \in 1..Len(sorted) : sorted[k].timestamp <= x.timestamp})
    IN  SubSeq(sorted, 1, n) \o <<x>> \o SubSeq(sorted, n + 1, Len(sorted))

RECURSIVE SortAsc(_)
SortAsc(s) ==
    IF s = <<>> THEN <<>>
    ELSE InsertAsc(SortAsc(SubSeq(s, 1, Len(s) - 1)), s[Len(s)])

\* UrlStore.findUrlHistory: the earliest entry whose url is exactly the given
\* string (<<>> is undefined)
StoreFindUrlHistory(list, url) ==
    LET same == SelectSeq(list, LAMBDA e : e.url = url)
    IN  IF same = <<>> THEN <<>> ELSE <<SortAsc(same)[1]>>

\* getPostAgeHours, in ticks: (now - postDate); hours = ticks / TicksPerHour
PostAge(timestamp, t) == t - timestamp

\* Math.floor and Math.ceil of a number of ticks taken as hours
FloorHours(ticks) == ticks \div TicksPerHour
CeilHours(ticks) ==
    IF ticks % TicksPerHour = 0 THEN ticks \div TicksPerHour ELSE (ticks \div TicksPerHour) + 1

\* createRepostEmbed: `Posted ${Math.floor(postAge)} hours ago`
PostedHoursAgo(age) == FloorHours(age)

\* the remaining time rounded down instead of up
TimeRemainingFloor(age) == FloorHours(thresholdHours * TicksPerHour - age)

\* createRepostEmbed: `Time remaining: ${Math.ceil(threshold - postAge)} hours`
TimeRemaining(age) == CeilHours(thresholdHours * TicksPerHour - age)

\* mutant of AboveThreshold: the boundary counted as expired
AboveOrAtThreshold(age) == age >= thresholdHours * TicksPerHour

\* postAge > thresholdHours, with both sides in ticks
AboveThreshold(age) == age > thresholdHours * TicksPerHour

\* mutant of DecideRepost: another user's repost in another channel is taken
\* for the poster's own
DecideRepostByLocation(history, message, age) ==
    IF age > thresholdHours * TicksPerHour THEN "EXPIRED_REPOST"
    ELSE IF history.userId = message.author \/ history.channelId # message.channel
         THEN "BLOCKED_SAME_USER"
    ELSE "BLOCKED_OTHER_USER"

\* mutant of Upserts: the blocked paths store the post too
UpsertsAlways(d) == d \in {"NEW", "EXPIRED_REPOST", "BLOCKED_SAME_USER", "BLOCKED_OTHER_USER"}

\* the branches of processUrl that call store.addUrl (lines 75-83 and 96-103)
Upserts(d) == d \in {"NEW", "EXPIRED_REPOST"}

\* lines 75-88 and createRepostEmbed: what processUrl decides for a url with
\* history; the embed tells a same-user repost from another user's only
DecideRepost(history, message, age) ==
    IF AboveThreshold(age) THEN "EXPIRED_REPOST"
    ELSE IF history.userId = message.author THEN "BLOCKED_SAME_USER"
    ELSE "BLOCKED_OTHER_USER"

(* ---------------- handleMessage / processUrl (part_002) ----------------- *)

\* the bot runs the threshold tracker on UrlStore
StoreRun ==
    /\ tracker = "processUrl"
    /\ UNCHANGED <<tracker, storageVars, existingUrl, findLog, oracle, pureVars>>

\* UrlTracker.init -> UrlStore.init -> loadData: fs.readFile is pending
StoreInitCall ==
    /\ StoreRun
    /\ UNCHANGED postAge
    /\ opPc = "idle"
    /\ opPc' = "load"
    /\ UNCHANGED <<now, live, storeVars, opBuf, pc, msg, idx, urlHistory, wbuf, verdict, outcomes>>

\* readFile settles: parsed data replaces this.data; ENOENT -> saveData;
\* anything else is rethrown and UrlTracker.init rejects before binding
StoreLoaded ==
    /\ StoreRun
    /\ UNCHANGED postAge
    /\ opPc = "load"
    /\ CASE dataFile.state = "ok" ->
                /\ data' = LoadData(dataFile)
                /\ initialized' = TRUE
                /\ opPc' = "bound"
                /\ UNCHANGED opBuf
         [] dataFile.state = "missing" ->
                /\ opBuf' = data
                /\ opPc' = "initWrite"
                /\ UNCHANGED <<data, initialized>>
         [] OTHER ->
                /\ opPc' = "failed"
                /\ UNCHANGED <<data, initialized, opBuf>>
    /\ UNCHANGED <<now, live, dataFile, pc, msg, idx, urlHistory, wbuf, verdict, outcomes>>

\* init's saveData settles; a failed write rejects init
StoreInitWritten ==
    /\ StoreRun
    /\ UNCHANGED postAge
    /\ opPc = "initWrite"
    /\ \/ /\ dataFile' = DataOf(opBuf)
          /\ initialized' = TRUE
          /\ opPc' = "bound"
       \/ /\ opPc' = "failed"
          /\ UNCHANGED <<dataFile, initialized>>
    /\ opBuf' = <<>>
    /\ UNCHANGED <<now, live, data, pc, msg, idx, urlHistory, wbuf, verdict, outcomes>>

\* handleMessage's loop moves on: processUrl calls findUrlHistory for the next
\* url, or handleMessage returns
PNextUrl(h) ==
    IF idx[h] < Len(msg[h].urls)
    THEN /\ idx' = [idx EXCEPT ![h] = @ + 1]
         /\ urlHistory' = [urlHistory EXCEPT ![h] =
                StoreFindUrlHistory(data, msg[h].urls[idx[h] + 1])]
         /\ pc' = [pc EXCEPT ![h] = "pfound"]
    ELSE /\ pc' = [pc EXCEPT ![h] = "done"]
         /\ UNCHANGED <<idx, urlHistory>>

\* UrlStore.addUrl up to fs.writeFile: the entry is pushed without any check
StoreAddUrlCall(h) ==
    /\ data' = Append(data, StoreEntry(Cur(h), msg[h].author, msg[h].channel, now))
    /\ wbuf' = [wbuf EXCEPT ![h] = data']
    /\ pc' = [pc EXCEPT ![h] = "paddWrite"]

\* messageCreate: handleMessage is called for a message of the main channel or
\* one of its threads, and processUrl calls findUrlHistory for the first url
PStartWith(h, lists) ==
    /\ StoreRun
    /\ UNCHANGED postAge
    /\ opPc = "bound"
    /\ pc[h] = "idle"
    /\ \E a \in Users, c \in Channels, ul \in lists :
        /\ msg' = [msg EXCEPT ![h] = [author |-> a, channel |-> c, id |-> h, urls |-> ul]]
        /\ urlHistory' = [urlHistory EXCEPT ![h] = StoreFindUrlHistory(data, ul[1])]
    /\ idx' = [idx EXCEPT ![h] = 1]
    /\ live' = live \cup {h}
    /\ pc' = [pc EXCEPT ![h] = "pfound"]
    /\ UNCHANGED <<now, storeVars, opVars, wbuf, verdict, outcomes>>

PStart(h) == PStartWith(h, UrlLists)

\* `await findUrlHistory` resumes: decide, then addUrl or message.reply
PFound(h) ==
    /\ StoreRun
    /\ pc[h] = "pfound"
    /\ postAge' = [postAge EXCEPT ![h] =
            IF urlHistory[h] = <<>> THEN 0 ELSE PostAge(urlHistory[h][1].timestamp, now)]
    /\ LET d == IF urlHistory[h] = <<>> THEN "NEW"
                ELSE DecideRepost(urlHistory[h][1], msg[h], postAge'[h])
       IN  /\ verdict' = [verdict EXCEPT ![h] = d]
           /\ IF Upserts(d)
              THEN StoreAddUrlCall(h)
              ELSE /\ pc' = [pc EXCEPT ![h] = "preply"]
                   /\ UNCHANGED <<data, wbuf>>
    /\ UNCHANGED <<now, live, initialized, dataFile, opVars, msg, idx, urlHistory, outcomes>>

\* `await message.reply` resumes: message.delete is called when the message
\* is deletable; a rejection is caught by processUrl, and the loop goes on
PReplied(h) ==
    /\ StoreRun
    /\ UNCHANGED postAge
    /\ pc[h] = "preply"
    /\ \/ /\ pc' = [pc EXCEPT ![h] = "pdelete"]
          /\ UNCHANGED <<idx, urlHistory, outcomes, verdict>>
       \/ /\ Emit(h, verdict[h])
          /\ PNextUrl(h)
          /\ verdict' = [verdict EXCEPT ![h] = "none"]
       \/ /\ Emit(h, "ERROR")
          /\ PNextUrl(h)
          /\ verdict' = [verdict EXCEPT ![h] = "none"]
    /\ UNCHANGED <<now, live, storeVars, opVars, msg, wbuf>>

\* `await message.delete` resumes
PDeleted(h) ==
    /\ StoreRun
    /\ UNCHANGED postAge
    /\ pc[h] = "pdelete"
    /\ \/ /\ Emit(h, verdict[h])
          /\ live' = live \ {h}
       \/ /\ Emit(h, "ERROR")
          /\ UNCHANGED live
    /\ PNextUrl(h)
    /\ verdict' = [verdict EXCEPT ![h] = "none"]
    /\ UNCHANGED <<now, storeVars, opVars, msg, wbuf>>

\* addUrl's saveData settles; a rejection is caught by processUrl
PAddWritten(h) ==
    /\ StoreRun
    /\ UNCHANGED postAge
    /\ pc[h] = "paddWrite"
    /\ \/ /\ dataFile' = DataOf(wbuf[h])
          /\ Emit(h, verdict[h])
       \/ /\ Emit(h, "ERROR")
          /\ UNCHANGED dataFile
    /\ PNextUrl(h)
    /\ wbuf' = [wbuf EXCEPT ![h] = <<>>]
    /\ verdict' = [verdict EXCEPT ![h] = "none"]
    /\ UNCHANGED <<now, live, data, initialized, opVars, msg>>

(* ------------------------------ environment ----------------------------- *)

Tick ==
    /\ now < MaxTime
    /\ now' = now + 1
    /\ UNCHANGED <<tracker, live, storageVars, storeVars, opVars, handlerVars, pureVars>>

\* a user or moderator deletes a message that a record refers to (deleting
\* any other message is not observable by the bot)
Referenced(m) ==
    \E k \in 1..Len(AllEntries(urls)) : AllEntries(urls)[k].messageId = m

MessageDeleted ==
    /\ StorageRun
    /\ \E m \in live : Referenced(m) /\ live' = live \ {m}
    /\ UNCHANGED <<now, storageVars, opVars, handlerVars>>

(* ----------------------------- specification ---------------------------- *)

NoInput == [fn |-> "none", s |-> <<>>, a |-> 0, b |-> 0]

InitBot ==
    /\ tracker \in {"handleUrlMessage", "processUrl"}
    /\ now = 0
    /\ live = {OldMessage}
    /\ urls = <<>>
    /\ isInitialized = FALSE
    /\ storageFile \in (IF tracker = "handleUrlMessage"
                          THEN {MissingFile, CorruptFile, FileOf(OldMap)}
                          ELSE {MissingFile})
    /\ data = <<>>
    /\ initialized = FALSE
    /\ dataFile \in (IF tracker = "processUrl"
                       THEN {MissingData, CorruptData, DataOf(OldData)}
                       ELSE {MissingData})
    /\ urlHistory = [h \in Handlers |-> <<>>]
    /\ postAge = [h \in Handlers |-> 0]
    /\ opPc = "idle"
    /\ opBuf = <<>>
    /\ pc = [h \in Handlers |-> "idle"]
    /\ msg = [h \in Handlers |-> [author |-> 1, channel |-> 1, id |-> h, urls |-> <<1>>]]
    /\ idx = [h \in Handlers |-> 1]
    /\ existingUrl = [h \in Handlers |-> <<>>]
    /\ findLog = [h \in Handlers |-> "none"]
    /\ wbuf = [h \in Handlers |-> <<>>]
    /\ oracle = [h \in Handlers |-> "none"]
    /\ verdict = [h \in Handlers |-> "none"]
    /\ outcomes = [h \in Handlers |-> <<>>]

Init ==
    /\ InitBot
    /\ input = NoInput
    /\ output = <<>>

HandlerStep(h) ==
    \/ Start(h)
    \/ Found(h)
    \/ ChanFetched(h)
    \/ MsgFetched(h)
    \/ Replied(h)
    \/ DelNone(h)
    \/ DelWritten(h)
    \/ AddWritten(h)
    \/ AddNull(h)

StoreStep(h) ==
    \/ PStart(h)
    \/ PFound(h)
    \/ PReplied(h)
    \/ PDeleted(h)
    \/ PAddWritten(h)

NextStorage ==
    \/ \E h \in Handlers : HandlerStep(h)
    \/ StorageInitCall
    \/ StorageInitDone
    \/ CleanupCall
    \/ CleanupWritten
    \/ Tick
    \/ MessageDeleted

NextStore ==
    \/ \E h \in Handlers : StoreStep(h)
    \/ StoreInitCall
    \/ StoreLoaded
    \/ StoreInitWritten
    \/ Tick

Next == NextStorage \/ NextStore

Spec == Init /\ [][Next]_vars

(* ----------------- one message with several urls in it ------------------ *)

(* The run in which a single message is handled, with up to                 *)
(* MaxUrlsPerMsg + 1 urls matched in its text, each one of NumUrls + 1       *)
(* urls: String.prototype.match returns every match, repeated ones too.     *)
LongLists == UNION {[1..n -> 1..(NumUrls + 1)] : n \in 1..(MaxUrlsPerMsg + 1)}

NoOtherMessage(h) == \A g \in Handlers \ {h} : pc[g] = "idle"

StartLong(h) == NoOtherMessage(h) /\ StartWith(h, LongLists)
PStartLong(h) == NoOtherMessage(h) /\ PStartWith(h, LongLists)

HandlerStepOne(h) ==
    \/ StartLong(h)
    \/ Found(h)
    \/ ChanFetched(h)
    \/ MsgFetched(h)
    \/ Replied(h)
    \/ DelNone(h)
    \/ DelWritten(h)
    \/ AddWritten(h)
    \/ AddNull(h)

StoreStepOne(h) ==
    \/ PStartLong(h)
    \/ PFound(h)
    \/ PReplied(h)
    \/ PDeleted(h)
    \/ PAddWritten(h)

NextOne ==
    \/ \E h \in Handlers : HandlerStepOne(h)
    \/ StorageInitCall
    \/ StorageInitDone
    \/ CleanupCall
    \/ CleanupWritten
    \/ MessageDeleted
    \/ \E h \in Handlers : StoreStepOne(h)
    \/ StoreInitCall
    \/ StoreLoaded
    \/ StoreInitWritten
    \/ Tick

SpecOne == Init /\ [][NextOne]_vars

(* -------------- two messages, each with one of two urls ----------------- *)

(* The run in which the messages handled together carry one url each, one   *)
(* of NumUrls + 1 urls, at one instant of the clock (so that the sweep,      *)
(* which needs the clock to advance, is left out).                          *)
EitherUrl == [1..1 -> 1..(NumUrls + 1)]

StartEither(h) == StartWith(h, EitherUrl)
PStartEither(h) == PStartWith(h, EitherUrl)

HandlerStepTwo(h) ==
    \/ StartEither(h)
    \/ Found(h)
    \/ ChanFetched(h)
    \/ MsgFetched(h)
    \/ Replied(h)
    \/ DelNone(h)
    \/ DelWritten(h)
    \/ AddWritten(h)
    \/ AddNull(h)

StoreStepTwo(h) ==
    \/ PStartEither(h)
    \/ PFound(h)
    \/ PReplied(h)
    \/ PDeleted(h)
    \/ PAddWritten(h)

NextTwo ==
    \/ \E h \in Handlers : HandlerStepTwo(h)
    \/ StorageInitCall
    \/ StorageInitDone
    \/ MessageDeleted
    \/ \E h \in Handlers : StoreStepTwo(h)
    \/ StoreInitCall
    \/ StoreLoaded
    \/ StoreInitWritten

SpecTwo == Init /\ [][NextTwo]_vars

(* ------------- UrlStore used before anyone called init ------------------ *)

(* addUrl, findUrlHistory and fetchChannelUrls start with                   *)
(* `if (!this.initialized) await this.init()`.  Here the callers use a       *)
(* UrlStore on which init was not called: handler h is one call of addUrl    *)
(* or findUrlHistory (fetchChannelUrls reads the array as findUrlHistory     *)
(* does), verdict[h] says which.                                            *)

\* the call goes on after its init, or at once on an initialized store: addUrl
\* pushes onto list and calls saveData, findUrlHistory returns
LazyResume(h, m, call, list) ==
    IF call = "addUrl"
    THEN /\ data' = Append(list, StoreEntry(m.urls[1], m.author, m.channel, now))
         /\ wbuf' = [wbuf EXCEPT ![h] = data']
         /\ pc' = [pc EXCEPT ![h] = "lazyAddWrite"]
         /\ UNCHANGED <<urlHistory, outcomes>>
    ELSE /\ data' = list
         /\ urlHistory' = [urlHistory EXCEPT ![h] = StoreFindUrlHistory(list, m.urls[1])]
         /\ outcomes' = [outcomes EXCEPT ![h] =
                Append(@, [url |-> m.urls[1], kind |-> "RETURNED"])]
         /\ pc' = [pc EXCEPT ![h] = "done"]
         /\ wbuf' = [wbuf EXCEPT ![h] = <<>>]

\* the call rejects with the error of init or of saveData
LazyReject(h) ==
    /\ outcomes' = [outcomes EXCEPT ![h] = Append(@, [url |-> msg[h].urls[1], kind |-> "ERROR"])]
    /\ pc' = [pc EXCEPT ![h] = "done"]
    /\ wbuf' = [wbuf EXCEPT ![h] = <<>>]
    /\ UNCHANGED urlHistory

\* addUrl or findUrlHistory is called: on a store not initialized, init calls
\* loadData and fs.readFile is pending
LazyCall(h) ==
    /\ StoreRun
    /\ opPc = "idle"
    /\ pc[h] = "idle"
    /\ \E call \in {"addUrl", "findUrlHistory"}, a \in Users, c \in Channels, ul \in UrlLists :
        /\ msg' = [msg EXCEPT ![h] = [author |-> a, channel |-> c, id |-> h, urls |-> ul]]
        /\ verdict' = [verdict EXCEPT ![h] = call]
        /\ IF initialized
           THEN LazyResume(h, msg'[h], call, data)
           ELSE /\ pc' = [pc EXCEPT ![h] = "lazyLoad"]
                /\ UNCHANGED <<data, wbuf, urlHistory, outcomes>>
    /\ UNCHANGED <<now, live, initialized, dataFile, opVars, idx, postAge>>

\* this call's readFile settles: the parsed file replaces this.data; ENOENT ->
\* saveData of this.data as it is now; anything else rejects the call
LazyLoaded(h) ==
    /\ StoreRun
    /\ pc[h] = "lazyLoad"
    /\ CASE dataFile.state = "ok" ->
                /\ initialized' = TRUE
                /\ LazyResume(h, msg[h], verdict[h], LoadData(dataFile))
         [] dataFile.state = "missing" ->
                /\ wbuf' = [wbuf EXCEPT ![h] = data]
                /\ pc' = [pc EXCEPT ![h] = "lazyInitWrite"]
                /\ UNCHANGED <<data, initialized, urlHistory, outcomes>>
         [] OTHER ->
                /\ LazyReject(h)
                /\ UNCHANGED <<data, initialized>>
    /\ UNCHANGED <<now, live, dataFile, opVars, msg, idx, postAge, verdict>>

\* init's saveData settles
LazyInitWritten(h) ==
    /\ StoreRun
    /\ pc[h] = "lazyInitWrite"
    /\ \/ /\ dataFile' = DataOf(wbuf[h])
          /\ initialized' = TRUE
          /\ LazyResume(h, msg[h], verdict[h], data)
       \/ /\ LazyReject(h)
          /\ UNCHANGED <<data, initialized, dataFile>>
    /\ UNCHANGED <<now, live, opVars, msg, idx, postAge, verdict>>

\* addUrl's saveData settles: addUrl returns the entry, or rejects
LazyAddWritten(h) ==
    /\ StoreRun
    /\ pc[h] = "lazyAddWrite"
    /\ \/ /\ dataFile' = DataOf(wbuf[h])
          /\ outcomes' = [outcomes EXCEPT ![h] =
                Append(@, [url |-> msg[h].urls[1], kind |-> "ADDED"])]
       \/ /\ outcomes' = [outcomes EXCEPT ![h] =
                Append(@, [url |-> msg[h].urls[1], kind |-> "ERROR"])]
          /\ UNCHANGED dataFile
    /\ pc' = [pc EXCEPT ![h] = "done"]
    /\ wbuf' = [wbuf EXCEPT ![h] = <<>>]
    /\ UNCHANGED <<now, live, data, initialized, opVars, msg, idx, urlHistory, postAge, verdict>>

LazyStep(h) ==
    \/ LazyCall(h)
    \/ LazyLoaded(h)
    \/ LazyInitWritten(h)
    \/ LazyAddWritten(h)

NextLazy == \E h \in Handlers : LazyStep(h)

InitLazy == Init /\ tracker = "processUrl"

SpecLazy == InitLazy /\ [][NextLazy]_vars

(* ------------------- pure functions on drawn inputs --------------------- *)

(* A string is a sequence of characters over a small alphabet: three        *)
(* digits, the minus sign, the decimal point and a letter.                  *)
MaxEnvLen == 3          \* longest value of URL_REPOST_THRESHOLD_HOURS drawn
Chars == {"0", "1", "5", "-", ".", "a"}
Digits == {"0", "1", "5"}
EnvStrings == UNION {[1..n -> Chars] : n \in 0..MaxEnvLen}

DigitValue(c) == IF c = "0" THEN 0 ELSE IF c = "1" THEN 1 ELSE 5

\* the longest prefix of s made of digits only
RECURSIVE DigitPrefix(_)
DigitPrefix(s) ==
    IF s = <<>> \/ Head(s) \notin Digits THEN <<>>
    ELSE <<Head(s)>> \o DigitPrefix(Tail(s))

\* the value of a sequence of digits read in radix 10
RECURSIVE DecimalValue(_)
DecimalValue(ds) ==
    IF ds = <<>> THEN 0
    ELSE 10 * DecimalValue(SubSeq(ds, 1, Len(ds) - 1)) + DigitValue(ds[Len(ds)])

\* a number is [isNaN, value]; the value of NaN is never read
NaN == [isNaN |-> TRUE, value |-> 0]

(* parseInt(string): an optional sign, then the longest run of digits;      *)
(* whatever follows is ignored; no digit at all gives NaN.                  *)
parseInt(s) ==
    LET neg == s # <<>> /\ Head(s) = "-"
        rest == IF neg THEN Tail(s) ELSE s
        ds == DigitPrefix(rest)
    IN  IF ds = <<>> THEN NaN
        ELSE [isNaN |-> FALSE,
              value |-> IF neg THEN 0 - DecimalValue(ds) ELSE DecimalValue(ds)]

(* validateEnv, for a process.env in which MAIN_CHANNEL_ID is set and        *)
(* URL_REPOST_THRESHOLD_HOURS is s (<<>> stands for unset or empty).        *)
validateEnvAccepts(s) ==
    IF s = <<>> THEN "throws"
    ELSE LET threshold == parseInt(s)
         IN  IF threshold.isNaN THEN "throws"
             ELSE IF threshold.value <= 0 THEN "throws"
             ELSE "ok"

EnvInputs == {[fn |-> "validateEnv", s |-> s, a |-> 0, b |-> 0] : s \in EnvStrings}

\* UrlTracker.init reaches this.validateEnv()
ValidateEnvCall ==
    /\ input.fn = "validateEnv"
    /\ output = <<>>
    /\ output' = <<validateEnvAccepts(input.s)>>
    /\ UNCHANGED <<envVars, storageVars, storeVars, opVars, handlerVars, input>>

(* Three spellings of one address, as url strings: all in lower case, the  *)
(* host in another letter case, the path in another letter case.  The       *)
(* regex of urlTracker.js matches each of them ([a-zA-Z] in host and path).  *)
LowerCaseUrl == 1
OtherCaseHost == 2
OtherCasePath == 3
KeyStrings == {k * sign : k \in {LowerCaseUrl, OtherCaseHost, OtherCasePath}, sign \in {1, -1}}

KeyInputs == {[fn |-> "key", s |-> <<>>, a |-> a, b |-> b] : a, b \in KeyStrings}

(* The record of url a is inserted in an empty store, then url b is looked  *)
(* up, inserted and deleted: UrlStorage.addUrl, findUrlHistory, addUrl,      *)
(* deleteUrl, and UrlStore.addUrl, findUrlHistory.                          *)
KeyOps(a, b) ==
    LET m == SaveMap(<<>>, 1, <<UrlEntry(a, 1, 1, 1, 0)>>)
        list == <<StoreEntry(a, 1, 1, 0)>>
    IN  << IF findUrlHistory(m, TRUE, b) # <<>> THEN "record" ELSE "null",
           IF isDuplicateUrl(m, Trim(b)) \/ SaveCount(m, <<UrlEntry(b, 2, 1, 2, 0)>>) = 0
              THEN "null" ELSE "entry",
           IF isDuplicateUrl(m, b) THEN "true" ELSE "false",
           IF StoreFindUrlHistory(list, b) # <<>> THEN "record" ELSE "undefined" >>

KeyOpsCall ==
    /\ input.fn = "key"
    /\ output = <<>>
    /\ output' = KeyOps(input.a, input.b)
    /\ UNCHANGED <<envVars, storageVars, storeVars, opVars, handlerVars, input>>

PureInputs == EnvInputs \cup KeyInputs

InitPure ==
    /\ InitBot
    /\ tracker = "processUrl"
    /\ dataFile = MissingData
    /\ input \in PureInputs
    /\ output = <<>>

NextPure ==
    \/ ValidateEnvCall
    \/ KeyOpsCall

SpecPure == InitPure /\ [][NextPure]_vars

(* ------------------------------- claims --------------------------------- *)

Pairwise(list) ==
    \A i, j \in 1..Len(list) : i # j => Trim(list[i].url) # Trim(list[j].url)

\* C1: whatever the interleaving of message handlings and store operations,
\* the store holds at most one record per trimmed URL, over all channels.
C1_OneRecordPerUrl == Pairwise(AllEntries(urls)) /\ Pairwise(data)

\* the same, of the Map-based UrlStorage alone
C1_StorageOnly == Pairwise(AllEntries(urls))

LastKind(h) == IF outcomes[h] = <<>> THEN "none" ELSE outcomes[h][Len(outcomes[h])].kind
Blocked == {"BLOCKED_OTHER_USER", "BLOCKED_SAME_USER"}
Threshold == thresholdHours * TicksPerHour
OnStorage == tracker = "handleUrlMessage"
OnStore == tracker = "processUrl"

\* two handlings of the same url, both having found no record, both on the
\* new-entry path: the first has inserted its record, the second was not
\* decided against it
StorageRace(h1, h2) ==
    /\ OnStorage /\ isInitialized
    /\ pc[h1] = "addWrite" /\ pc[h2] = "addNull"
    /\ findLog[h1] = "No URL history found" /\ findLog[h2] = "No URL history found"
    /\ Cur(h1) = Cur(h2)
    /\ findUrlHistory(urls, isInitialized, Cur(h1)) # <<>>
    /\ findUrlHistory(urls, isInitialized, Cur(h1))[1].messageId = msg[h1].id
StoreRace(h1, h2) ==
    /\ OnStore
    /\ pc[h1] = "paddWrite" /\ pc[h2] = "paddWrite"
    /\ urlHistory[h1] = <<>> /\ urlHistory[h2] = <<>>
    /\ Cur(h1) = Cur(h2)

\* C2: two concurrent handlings of the same never-seen URL are serialized:
\* it never happens that both find the URL absent and both treat their post
\* as new.
C2_FirstSightingSerialized ==
    \A h1, h2 \in Handlers : h1 # h2 => ~StorageRace(h1, h2) /\ ~StoreRace(h1, h2)

\* C3: once a repost of an expired record has been stored, the record of the
\* URL is the reposter's: a lookup no longer returns the expired record.
C3_ExpiredRecordReplaced ==
    \A h \in Handlers :
        (OnStore /\ pc[h] = "paddWrite" /\ verdict[h] = "EXPIRED_REPOST")
            => StoreFindUrlHistory(data, Cur(h)) # urlHistory[h]

\* C4: when the existence check fails for a transient reason, the handling
\* neither deletes the record nor goes on as if the URL were absent.
C4_OracleFailureKeepsRecord ==
    \A h \in Handlers :
        oracle[h] = "error" => pc[h] \notin {"delWrite", "delNone", "addWrite", "addNull"}

\* C5: when the oracle reports the record's message gone, the handling removes
\* the old record and inserts the new post: a lookup returns the new post's
\* record.
C5_SelfHealInsertsNewPost ==
    [][\A h \in Handlers :
        (/\ oracle[h] = "gone"
         /\ pc[h] \in {"delWrite", "delNone"}
         /\ pc'[h] \in {"addWrite", "addNull"})
            => LET f == findUrlHistory(urls', isInitialized', Cur(h))
               IN  f # <<>> /\ f[1].messageId = msg[h].id]_vars

\* C6: the self-heal deletion removes only a record whose message is gone,
\* never a record with a live message that another handling inserted meanwhile.
C6_SelfHealRemovesOnlyMissing ==
    [][\A h \in Handlers :
        (pc[h] = "msgFetch" /\ pc'[h] = "delWrite" /\ oracle'[h] = "gone")
            => findUrlHistory(urls, isInitialized, Cur(h))[1].messageId \notin live]_vars

\* C7: a post is blocked only against a record whose message the oracle has
\* confirmed live during the same handling.
C7_BlockOnlyAfterLiveCheck ==
    \A h \in Handlers : verdict[h] \in Blocked => oracle[h] = "live"

\* the same, of handleUrlMessage (urlTracker.js) alone
C7_HandleUrlMessageOnly ==
    \A h \in Handlers : (OnStorage /\ verdict[h] \in Blocked) => oracle[h] = "live"

\* C8: a record within the threshold and a different poster give
\* BLOCKED_OTHER_USER, whatever the location of the post.
C8_OtherUserBlocked ==
    \A h \in Handlers :
        /\ (/\ OnStore
            /\ pc[h] \in {"preply", "pdelete", "paddWrite"}
            /\ urlHistory[h] # <<>>
            /\ postAge[h] <= Threshold
            /\ urlHistory[h][1].userId # msg[h].author)
                => verdict[h] = "BLOCKED_OTHER_USER"
        /\ (/\ OnStorage
            /\ oracle[h] = "live"
            /\ existingUrl[h] # <<>>
            /\ existingUrl[h][1].userId # msg[h].author)
                => /\ pc[h] = "reply" => verdict[h] = "BLOCKED_OTHER_USER"
                   /\ pc[h] = "done" => LastKind(h) \in {"BLOCKED_OTHER_USER", "ERROR"}

\* two posts blocked as another user's, one in the record's channel, one not
C8_Witness ==
    \E h1, h2 \in Handlers :
        /\ OnStore /\ pc[h1] = "preply" /\ pc[h2] = "preply"
        /\ verdict[h1] = "BLOCKED_OTHER_USER" /\ verdict[h2] = "BLOCKED_OTHER_USER"
        /\ postAge[h1] <= Threshold /\ postAge[h2] <= Threshold
        /\ msg[h1].channel = urlHistory[h1][1].channelId
        /\ msg[h2].channel # urlHistory[h2][1].channelId

\* C9: same poster within the threshold: both cases are blocked, and the
\* outcome tells a post in the record's location from a post elsewhere.
C9_SameUserByLocation ==
    /\ \A h1, h2 \in Handlers :
        (/\ OnStore
         /\ pc[h1] = "preply" /\ pc[h2] = "preply"
         /\ urlHistory[h1][1].userId = msg[h1].author
         /\ urlHistory[h2][1].userId = msg[h2].author
         /\ urlHistory[h1][1].channelId = msg[h1].channel
         /\ urlHistory[h2][1].channelId # msg[h2].channel)
            => verdict[h1] # verdict[h2]
    /\ \A h \in Handlers :
        (/\ OnStorage
         /\ oracle[h] = "live"
         /\ pc[h] = "done"
         /\ existingUrl[h] # <<>>
         /\ existingUrl[h][1].userId = msg[h].author)
            => LastKind(h) \notin {"NO_ACTION", "ERROR", "NEW"}

\* C10: a record whose age equals the threshold is within the threshold
\* (blocked); only an age above the threshold gives EXPIRED_REPOST.
C10_BoundaryIsWithin ==
    [][\A h \in Handlers :
        (OnStore /\ pc[h] = "pfound" /\ pc'[h] # "pfound" /\ urlHistory[h] # <<>>)
            => LET age == now - urlHistory[h][1].timestamp
               IN  /\ verdict'[h] = "EXPIRED_REPOST" <=> age > Threshold
                   /\ age = Threshold => verdict'[h] \in Blocked]_vars

\* a post blocked against a record exactly as old as the threshold
C10_Witness ==
    \E h \in Handlers :
        /\ OnStore /\ pc[h] = "preply"
        /\ postAge[h] = Threshold
        /\ now - urlHistory[h][1].timestamp = Threshold
        /\ verdict[h] \in Blocked

\* the store, in memory and on disk
StoreState == <<urls, storageFile, data, dataFile>>

\* C11: no step of a handling that decides, or has decided, a BLOCKED outcome
\* for its url changes the store, in memory or on disk: no record is added,
\* removed or altered.
C11_BlockedLeavesStore ==
    [][\A h \in Handlers :
        (pc'[h] # pc[h] /\ (verdict[h] \in Blocked \/ verdict'[h] \in Blocked))
            => StoreState' = StoreState]_vars

\* a post was blocked, replied to and removed, and the record it was blocked
\* against is still the only one
C11_Witness ==
    \E h \in Handlers :
        /\ OnStore /\ pc[h] = "done" /\ LastKind(h) \in Blocked
        /\ urlHistory[h] # <<>> /\ data = <<urlHistory[h][1]>>
        /\ dataFile = DataOf(data)

\* this step gives handler h's current url the outcome `kind`
Emits(h, kind) ==
    /\ Len(outcomes'[h]) = Len(outcomes[h]) + 1
    /\ outcomes'[h][Len(outcomes'[h])].kind = kind

\* the record a lookup of url returns is the one of message m
LookupGives(m, init, list, url, message) ==
    IF OnStorage
    THEN LET f == findUrlHistory(m, init, url)
         IN  f # <<>> /\ f[1].userId = message.author /\ f[1].channelId = message.channel
    ELSE LET g == StoreFindUrlHistory(list, url)
         IN  g # <<>> /\ g[1].userId = message.author /\ g[1].channelId = message.channel

\* C12: when the handling of a url without a record ends as NEW, a record has
\* been inserted: a lookup of the url returns a record with the poster and the
\* location of the posting message.
C12_NewIsInserted ==
    [][\A h \in Handlers :
        (/\ Emits(h, "NEW")
         /\ (OnStorage => existingUrl[h] = <<>>)
         /\ (OnStore => urlHistory[h] = <<>>))
            => LookupGives(urls', isInitialized', data', Cur(h), msg[h])]_vars

\* C13: a message whose text holds the same url more than once yields one
\* outcome for that url: no handler produces two outcomes for one url.
C13_OneOutcomePerUrl ==
    \A h \in Handlers :
        \A i, j \in 1..Len(outcomes[h]) :
            i # j => outcomes[h][i].url # outcomes[h][j].url

\* C14: every url matched in a message yields one outcome or one explicit
\* error: when the handler returns, there is one for each url of the message,
\* also when the processing of an earlier url threw.
C14_EveryUrlHasOutcome ==
    \A h \in Handlers :
        pc[h] = "done" => Len(outcomes[h]) = Len(msg[h].urls)

\* C15: a failed write of the record being inserted is a failed outcome of the
\* url: when the pending write of an insertion settles and the url is reported
\* as added (NEW or EXPIRED_REPOST), the file holds what was written.
C15_WriteFailureSurfaced ==
    [][\A h \in Handlers :
        (/\ pc[h] \in {"addWrite", "paddWrite"}
         /\ (Emits(h, "NEW") \/ Emits(h, "EXPIRED_REPOST")))
            => /\ OnStorage => storageFile' = FileOf(wbuf[h])
               /\ OnStore => dataFile' = DataOf(wbuf[h])]_vars

\* C16: a mutating store operation that completes without failure has flushed
\* the state it left: when cleanup returns, when deleteUrl returns to the
\* handler, when UrlStore.addUrl resolves, the file holds the snapshot the
\* operation took after its change.
C16_FlushedBeforeComplete ==
    [][/\ (opPc = "cleanupWrite" /\ opPc' = "idle") => storageFile' = FileOf(opBuf)
       /\ \A h \in Handlers :
            /\ (pc[h] = "delWrite" /\ pc'[h] \in {"addWrite", "addNull"})
                    => storageFile' = FileOf(wbuf[h])
            /\ (pc[h] = "paddWrite" /\ pc'[h] # "paddWrite" /\ ~Emits(h, "ERROR"))
                    => dataFile' = DataOf(wbuf[h])]_vars

\* C17: a missing file gives an initialized, empty store and no error; an
\* unparseable file makes init fail: the store is not initialized and the
\* failure reaches the caller of the tracker's init.
C17_LoadFailureShapes ==
    [][/\ (opPc = "init" /\ opPc' # "init") =>
            /\ storageFile.state = "missing" =>
                    isInitialized' /\ urls' = <<>> /\ opPc' = "idle"
            /\ storageFile.state = "corrupt" =>
                    ~isInitialized' /\ opPc' = "failed"
       /\ (opPc = "load" /\ opPc' # "load") =>
            /\ dataFile.state = "missing" => data' = <<>> /\ opPc' = "initWrite"
            /\ dataFile.state = "corrupt" => ~initialized' /\ opPc' = "failed"
       /\ (opPc = "initWrite" /\ opPc' = "bound") => initialized' /\ data' = <<>>]_vars

\* C18: a lookup made before the store is loaded fails; it does not answer
\* `absent`, so the caller never goes on to treat the url as new on the
\* strength of it.
C18_LookupBeforeLoadFails ==
    [][\A h \in Handlers :
        (/\ pc[h] = "found" /\ pc'[h] # "found"
         /\ findLog[h] = "URL storage not initialized")
            => pc'[h] \notin {"addWrite", "addNull"}]_vars

WithinWindow(e, t) == t - e.timestamp <= maxAge

\* C20: a sweep removes exactly the records older than the retention window:
\* every channel keeps, unchanged and in order, its records whose age is at
\* most the window, and nothing else.
C20_SweepRemovesOnlyExpired ==
    [][(OnStorage /\ opPc = "idle" /\ opPc' = "cleanupWrite") =>
            /\ Len(urls') = Len(urls)
            /\ \A i \in 1..Len(urls) :
                    /\ urls'[i].ch = urls[i].ch
                    /\ urls'[i].list =
                            SelectSeq(urls[i].list, LAMBDA e : WithinWindow(e, now))]_vars


(* ---- C21 ---- *)

\* the string is a decimal literal: digits with at most one decimal point
IsDecimalLiteral(s) ==
    /\ \A i \in 1..Len(s) : s[i] \in Digits \cup {"."}
    /\ Cardinality({i \in 1..Len(s) : s[i] = "."}) <= 1
    /\ \E i \in 1..Len(s) : s[i] \in Digits

\* the configured threshold is a strictly positive number
StrictlyPositiveNumber(s) ==
    /\ IsDecimalLiteral(s)
    /\ \E i \in 1..Len(s) : s[i] \in Digits \ {"0"}

\* C21: init fails on the threshold check whenever the configured repost
\* threshold is not a strictly positive number (non-positive or not numeric),
\* and passes that check whenever it is one.
C21_ThresholdValidated ==
    (input.fn = "validateEnv" /\ output # <<>>) =>
        (output[1] = "ok" <=> StrictlyPositiveNumber(input.s))

(* ---- C22 ---- *)

\* handler h resumes from messages.fetch with a rejection and calls deleteUrl
DeleteCalled(h) ==
    /\ OnStorage
    /\ pc[h] = "msgFetch"
    /\ oracle'[h] \in {"gone", "error"}

\* C22: deleteUrl of a url that has no record changes neither the store nor
\* the file and issues no write; after deleteUrl of a url the store holds no
\* record of it, so that deleting it again is the no-op of the first part and
\* leaves the state the first deletion produced.
C22_RemoveIdempotent ==
    [][\A h \in Handlers : DeleteCalled(h) =>
          /\ ~isDuplicateUrl(urls, Cur(h)) =>
                /\ urls' = urls
                /\ storageFile' = storageFile
                /\ wbuf' = wbuf
                /\ pc'[h] = "delNone"
          /\ ~isDuplicateUrl(urls', Cur(h))]_vars

\* two handlers found the same record gone: the first deleteUrl removed it and
\* has its write pending, the second found nothing to delete
C22_Witness ==
    \E h, g \in Handlers :
        /\ h # g
        /\ OnStorage
        /\ isInitialized
        /\ pc[g] = "delWrite"
        /\ pc[h] = "delNone"
        /\ existingUrl[h] # <<>>
        /\ existingUrl[h] = existingUrl[g]

(* ---- C23 ---- *)

\* the records of the Map that are not records of url, each with its channel
OtherRecords(m, url) ==
    {[ch |-> m[i].ch, entry |-> m[i].list[j]] :
        <<i, j>> \in {<<i, j>> \in (1..Len(m)) \X (1..TotalLen(m)) :
                        j <= Len(m[i].list) /\ ~EntryMatches(m[i].list[j], url)}}

OtherData(list, url) == SelectSeq(list, LAMBDA e : e.url # url)

\* C23: a step of the handling of url u, whatever it inserts or deletes for
\* u, leaves the records of every other url in the store as they were: the
\* same records with the same field values.
C23_OtherKeysUntouched ==
    [][\A h \in Handlers : pc'[h] # pc[h] =>
          /\ OnStorage => OtherRecords(urls', Cur(h)) = OtherRecords(urls, Cur(h))
          /\ OnStore => OtherData(data', Cur(h)) = OtherData(data, Cur(h))]_vars

\* the record of one url was deleted from a channel in which another handler
\* has just inserted the record of another url, its write still pending
C23_Witness ==
    \E h, g \in Handlers :
        /\ OnStorage
        /\ pc[h] = "delWrite"
        /\ pc[g] = "addWrite"
        /\ \E e \in {existingUrl[h][1]} :
              /\ ~isDuplicateUrl(urls, e.url)
              /\ \E r \in OtherRecords(urls, e.url) :
                    r.ch = e.channelId /\ r.entry.messageId = g

(* ---- C24 ---- *)

\* the key the two spellings denote: surrounding whitespace removed, scheme
\* and host in lower case, path and query as written
NormalizedKey(url) ==
    IF Trim(url) = OtherCaseHost THEN LowerCaseUrl ELSE Trim(url)

\* C24: with the record of url a in the store, url b is found by the lookup,
\* refused by the insert and removed by the delete exactly when a and b have
\* the same normalized key; for UrlStore, whose urls carry no whitespace, the
\* lookup finds b exactly then.
C24_KeysNormalized ==
    (input.fn = "key" /\ output # <<>>) =>
        LET same == NormalizedKey(input.a) = NormalizedKey(input.b)
        IN  /\ output[1] = "record" <=> same
            /\ output[2] = "null" <=> same
            /\ output[3] = "true" <=> same
            /\ (input.a > 0 /\ input.b > 0) => (output[4] = "record" <=> same)

(* ---- C25 ---- *)

\* handler h has built the repost embed and handed it to message.reply
EmbedSent(h) == OnStore /\ pc[h] = "preply"

\* C25 as stated: the remaining time reported for a blocked post, in ticks,
\* is the threshold minus the age of the existing record.
C25_RemainingIsExact ==
    \A h \in Handlers : EmbedSent(h) =>
        TimeRemaining(postAge[h]) * TicksPerHour = Threshold - postAge[h]

\* C25: the remaining time reported for a blocked post is the threshold minus
\* the age of the existing record (now - record.postedAt) rounded up to a
\* whole number of hours: the least n with n hours >= threshold - age.
C25_RemainingRoundedUp ==
    \A h \in Handlers : EmbedSent(h) =>
        /\ postAge[h] <= PostAge(urlHistory[h][1].timestamp, now)
        /\ TimeRemaining(postAge[h]) * TicksPerHour >= Threshold - postAge[h]
        /\ (TimeRemaining(postAge[h]) - 1) * TicksPerHour < Threshold - postAge[h]

\* a post blocked at an age that is not a whole number of hours
C25_Witness ==
    \E h \in Handlers :
        /\ EmbedSent(h)
        /\ postAge[h] % TicksPerHour # 0
        /\ postAge[h] < Threshold

(* ---- C26 ---- *)

\* no call on the UrlStore is in flight
NoCallInFlight == \A h \in Handlers : pc[h] \in {"idle", "done"}

\* addUrl of handler h returned its entry
Acknowledged(h) == OnStore /\ verdict[h] = "addUrl" /\ LastKind(h) = "ADDED"

\* the entries of list that addUrl of handler h would have built
EntriesOf(list, h) ==
    SelectSeq(list, LAMBDA e : /\ e.url = msg[h].urls[1]
                               /\ e.userId = msg[h].author
                               /\ e.channelId = msg[h].channel
                               /\ e.timestamp # OldTime)

\* the acknowledged calls whose entry has the fields of the entry of h
SameEntry(h) ==
    {g \in Handlers : Acknowledged(g) /\ msg[g].urls = msg[h].urls
                        /\ msg[g].author = msg[h].author /\ msg[g].channel = msg[h].channel}

\* C26: once every call issued on the not-yet-initialized UrlStore has
\* completed, each entry that addUrl returned is in this.data.urls and in the
\* persisted file.
C26_LazyInitKeepsRecords ==
    NoCallInFlight =>
        \A h \in Handlers : Acknowledged(h) =>
            /\ Len(EntriesOf(data, h)) >= Cardinality(SameEntry(h))
            /\ dataFile.state = "ok"
            /\ Len(EntriesOf(dataFile.list, h)) >= Cardinality(SameEntry(h))

(* ---- C27 ---- *)

\* no handler and no store operation is in flight, so no file write is pending
Quiescent ==
    /\ \A h \in Handlers : pc[h] \in {"idle", "done"}
    /\ opPc \in {"idle", "bound"}

\* C27: whenever no store operation is in flight, the file holds the in-memory
\* state of the store (once the store is initialized).
C27_QuiescentConsistency ==
    Quiescent =>
        /\ (OnStorage /\ isInitialized) =>
              /\ storageFile.state # "corrupt"
              /\ storageFile.map = ObjectFromEntries(urls)
        /\ (OnStore /\ initialized) => dataFile = DataOf(data)

(* ---- C28 ---- *)

\* the fs.writeFile of saveUrls, called by handler h, fails: the handler goes
\* on and the file is not what was handed to the write
SaveWriteFails(h) ==
    /\ OnStorage
    /\ pc[h] = "addWrite"
    /\ pc'[h] # "addWrite"
    /\ storageFile' # FileOf(wbuf[h])

\* the fs.writeFile of deleteUrl, called by handler h, fails: the rejection
\* ends the handling of the message
DeleteWriteFails(h) ==
    /\ OnStorage
    /\ pc[h] = "delWrite"
    /\ Emits(h, "ERROR")

\* C28: when the write of saveUrls fails (saveUrls reports 0 added) the Map
\* does not hold the record it was adding, and when the write of deleteUrl
\* fails (deleteUrl rejects) the Map still holds a record of the url.
C28_FailedWriteLeavesMemory ==
    [][\A h \in Handlers :
          /\ SaveWriteFails(h) =>
                \A k \in 1..TotalLen(urls') : AllEntries(urls')[k].messageId # h
          /\ DeleteWriteFails(h) => isDuplicateUrl(urls', Cur(h))]_vars

(* ---- C29 ---- *)

\* handleUrlMessage completes the add-new-entry path for the current url of
\* handler h: addNewUrlEntry has returned
NewEntryPathDone(h) ==
    /\ OnStorage
    /\ pc[h] \in {"addWrite", "addNull"}
    /\ Emits(h, "NEW")

\* the lookup of the current url of handler h ran on an initialized store
LookedUpInitialized(h) == findLog[h] # FindLog(<<>>, FALSE, Cur(h))

\* C29: when handleUrlMessage has taken the add-new-entry path for url u on an
\* initialized store (u absent, original message gone, or original channel
\* not resolvable) and completes it, a lookup of u returns a record whose user
\* id, channel id and message id are those of the message just handled.
C29_NewEntryIsTruthful ==
    [][\A h \in Handlers : (NewEntryPathDone(h) /\ LookedUpInitialized(h)) =>
          LET f == findUrlHistory(urls', isInitialized', Cur(h))
          IN  /\ f # <<>>
              /\ f[1].userId = msg[h].author
              /\ f[1].channelId = msg[h].channel
              /\ f[1].messageId = msg[h].id]_vars

(* ---- C30 ---- *)

\* the step is not the one in which init's readFile settles
NotInitStep == ~(opPc = "init" /\ opPc' = "idle")

\* handler h calls addUrl (and through it saveUrls) or deleteUrl in this step
StorageOpCalled(h) ==
    /\ pc'[h] # pc[h]
    /\ \/ pc[h] \in {"delNone", "delWrite"}
       \/ pc[h] = "found" /\ existingUrl[h] = <<>>
       \/ pc[h] = "chanFetch" /\ oracle'[h] = "nochannel"
       \/ pc[h] = "msgFetch" /\ oracle'[h] \in {"gone", "error"}

\* C30: while UrlStorage is not initialized, every step other than the
\* completion of init leaves the Map and the file as they are and the store
\* not initialized; addUrl (with saveUrls) and deleteUrl called in that state
\* return null and false without calling fs.writeFile; and init makes the store
\* initialized only when the file could be read and parsed.
C30_UninitializedIsInert ==
    [][(OnStorage /\ ~isInitialized) =>
          /\ NotInitStep =>
                /\ urls' = urls
                /\ storageFile' = storageFile
                /\ ~isInitialized'
                /\ opPc' # "cleanupWrite"
                /\ \A h \in Handlers : StorageOpCalled(h) =>
                      pc'[h] \in {"addNull", "delNone", "done"} /\ wbuf'[h] = <<>>
          /\ isInitialized' => (~NotInitStep /\ storageFile.state # "corrupt")]_vars

\* addUrl was called on a store that is not initialized while the file holds a
\* record, and returned null
C30_Witness ==
    \E h \in Handlers :
        /\ OnStorage
        /\ ~isInitialized
        /\ storageFile = FileOf(OldMap)
        /\ pc[h] = "addNull"
        /\ urls = <<>>

====
